---------------------------- MODULE Spec2Model ----------------------------
(***************************************************************************)
(* A model of nereid/helpers.py: the pagination classes, slugify, the      *)
(* flashed-message queue, send_from_directory, the sitemap index and its   *)
(* sections, the decorators secure and login_required, and make_crumbs.    *)
(*                                                                         *)
(* The helpers are independent of each other, so each one has its own      *)
(* variables, its own initial predicate and its own specification; a       *)
(* specification leaves the variables of the other helpers at their idle   *)
(* values.                                                                 *)
(***************************************************************************)
EXTENDS Integers, Sequences, FiniteSets, TLC

VARIABLES
    \* BasePagination (helpers.py 420-542)
    page,           \* self.page
    per_page,       \* self.per_page
    data,           \* self.data
    pg_ret,         \* the last attribute read on the object and its value
    \* SitemapIndex (helpers.py 748-830)
    sm_table,       \* the ids of the rows of the model's table
    sm_match,       \* the ids of the rows that match self.domain
    sm_ret,         \* the last attribute read on the index and its value
    \* SitemapSection (helpers.py 833-1001)
    ss_yield,       \* history: for each page iterated, the ids it yielded
    \* SitemapIndex.render and SitemapSection.render
    sr_x_sendfile,  \* current_app.use_x_sendfile
    sr_tmp,         \* the temporary file: whether its name exists, and the
                    \* content that has reached the file
    sr_doc,         \* history: what render passed to buffer.write, in order
    sr_seen,        \* history: how much of sr_doc had reached the file when
                    \* send_file was called with its name
    sr_ret,         \* the outcome of render
    sr_sent,        \* what the client got once the response was transmitted
    \* secure and login_required (helpers.py 89-105)
    gt_session,     \* the keys of the session
    gt_url,         \* request.url, as a sequence of pieces
    gt_calls,       \* history: how many times the wrapped view was invoked
    gt_ret,         \* what the decorated function returned
    \* make_crumbs (helpers.py 365-417)
    mc_parent,      \* the parent field of each record, 0 when it has none
    mc_ret,         \* the last call, its arguments and what it returned
    \* slugify (helpers.py 311-331)
    sl_kind,        \* the type of the argument: "str" or "unicode"
    sl_value,       \* the argument, a sequence of characters
    sl_out,         \* the results of the calls made so far, oldest first
    \* flash / get_flashed_messages (helpers.py 108-146)
    fl_session,     \* session['_flashes'], None when the key is absent
    fl_ctx,         \* _request_ctx_stack.top.flashes
    fl_ret,         \* the last call and what it returned
    fl_req,         \* the number of the current request cycle
    fl_gets,        \* get_flashed_messages calls made in this request
    fl_log,         \* history: every pair flash() queued, in order
    fl_taken,       \* history: how many pairs of fl_log were queued when
                    \* a request last made its first get_flashed_messages call
    fl_first,       \* history: the pairs queued and not yet handed out at the
                    \* first get_flashed_messages call of this request
    fl_repop,       \* history: a later call of a request popped the session
    fl_cycles,      \* history: for each request cycle that has called
                    \* get_flashed_messages, how many pairs of fl_log were
                    \* queued at its first call, and the flashes its last
                    \* call returned
    \* send_from_directory (helpers.py 149-179)
    sd_directory,   \* the directory argument
    sd_filename,    \* the filename argument
    sd_files,       \* the regular files of the file system
    sd_ret,         \* the outcome of the call
    \* SphinxPagination (helpers.py 671-745)
    sx_enabled,     \* sphinx_server and sphinx_port are in CONFIG.options
    sx_made,        \* "no", "yes", or "failed" when __init__ raised
    sx_page,        \* self.page
    sx_per_page,    \* self.per_page
    sx_dict,        \* the object's __dict__: the cached properties
    sx_limits,      \* the limits set on self.sphinx_client
    sx_queries,     \* history: the Query calls made on the client
    sx_accesses,    \* history: accesses to result, count and items so far
    sx_ret,         \* the last operation and its outcome
    \* Pagination (helpers.py 545-618)
    dp_domain,      \* self.domain: a list of clauses (field, operator, value)
    dp_order,       \* self.order
    dp_page,        \* self.page
    dp_per_page,    \* self.per_page
    dp_count_attr,  \* self._count: None, or a count assigned by the caller
    dp_dict,        \* the object's __dict__: the cached property count
    dp_calls,       \* the calls the last operation made on self.obj
    dp_ret          \* the last operation and what it returned

pgVars == <<page, per_page, data, pg_ret>>
smVars == <<sm_table, sm_match, sm_ret>>
ssVars == <<ss_yield>>
gtVars == <<gt_session, gt_url, gt_calls, gt_ret>>
mcVars == <<mc_parent, mc_ret>>
srVars == <<sr_x_sendfile, sr_tmp, sr_doc, sr_seen, sr_ret, sr_sent>>
slVars == <<sl_kind, sl_value, sl_out>>
flVars == <<fl_session, fl_ctx, fl_ret, fl_req, fl_gets, fl_log, fl_taken,
            fl_first, fl_repop, fl_cycles>>
sdVars == <<sd_directory, sd_filename, sd_files, sd_ret>>
sxVars == <<sx_enabled, sx_made, sx_page, sx_per_page, sx_dict, sx_limits,
            sx_queries, sx_accesses, sx_ret>>
dpVars == <<dp_domain, dp_order, dp_page, dp_per_page, dp_count_attr, dp_dict,
            dp_calls, dp_ret>>

vars == <<pgVars, smVars, ssVars, srVars, gtVars, mcVars, slVars, flVars,
          sdVars, sxVars, dpVars>>

\* what each helper leaves alone: the variables of the others
notPg == <<smVars, ssVars, srVars, gtVars, mcVars, slVars, flVars, sdVars,
           sxVars, dpVars>>
notSm == <<pgVars, ssVars, srVars, gtVars, mcVars, slVars, flVars, sdVars,
           sxVars, dpVars>>
notSs == <<pgVars, srVars, gtVars, mcVars, slVars, flVars, sdVars, sxVars,
           dpVars>>
notSr == <<pgVars, ssVars, gtVars, mcVars, slVars, flVars, sdVars, sxVars,
           dpVars>>
notGt == <<pgVars, smVars, ssVars, srVars, mcVars, slVars, flVars, sdVars,
           sxVars, dpVars>>
notMc == <<pgVars, smVars, ssVars, srVars, gtVars, slVars, flVars, sdVars,
           sxVars, dpVars>>
notSl == <<pgVars, smVars, ssVars, srVars, gtVars, mcVars, flVars, sdVars,
           sxVars, dpVars>>
notFl == <<pgVars, smVars, ssVars, srVars, gtVars, mcVars, slVars, sdVars,
           sxVars, dpVars>>
notSd == <<pgVars, smVars, ssVars, srVars, gtVars, mcVars, slVars, flVars,
           sxVars, dpVars>>
notSx == <<pgVars, smVars, ssVars, srVars, gtVars, mcVars, slVars, flVars,
           sdVars, dpVars>>
notDp == <<pgVars, smVars, ssVars, srVars, gtVars, mcVars, slVars, flVars,
           sdVars, sxVars>>

\* Python's None, and the value of a result variable before any operation.
None == "None"
NoRet == [op |-> "none", value |-> None]

-----------------------------------------------------------------------------
(* Bounds of the model *)

MaxPage == 7
MaxPerPage == 3
MaxCount == 11
MaxSmallId == 60
MaxSlugLen == 4
MaxFlashes == 3
MaxRequests == 2
MaxGets == 3
MaxParts == 4
MaxQueries == 3
MaxAccesses == 3
MaxIds == 4
MaxSitemapPage == 4
MaxEntries == 3
MaxWrites == 7
MaxUrlPieces == 2
MaxEdge == 2
MaxDepth == 3

-----------------------------------------------------------------------------
(* Python helpers *)

\* min() of two integers
Min2(a, b) == IF a <= b THEN a ELSE b

\* int(ceil(n / float(d))) for n >= 0, d > 0: the float quotient is exact
\* enough for the magnitudes here, so this is the ceiling of the rational n/d.
CeilDiv(n, d) == IF n % d = 0 THEN n \div d ELSE (n \div d) + 1

\* range(1, n + 1)
Range1(n) == [i \in 1..n |-> i]

\* the Python slice s[a:b] for a >= 0 and b >= 0: empty when a >= b or
\* a >= len(s)
Slice(s, a, b) == SubSeq(s, a + 1, Min2(b, Len(s)))

-----------------------------------------------------------------------------
(* BasePagination *)

IdlePg == /\ page = 1
          /\ per_page = 1
          /\ data = <<>>
          /\ pg_ret = NoRet

\* BasePagination.__init__: page >= 1, per_page > 0, data a list
InitPg == /\ page \in 1..MaxPage
          /\ per_page \in 1..MaxPerPage
          /\ data \in {Range1(n) : n \in 0..MaxCount}
          /\ pg_ret = NoRet

\* BasePagination.count
count == Len(data)

\* a slip of pages: Python 2 integer division, without float()
pages_floor == count \div per_page

\* BasePagination.pages
pages == CeilDiv(count, per_page)

\* a slip of begin_count: the offset of the page, not capped by count
begin_count_uncapped == ((page - 1) * per_page) + 1

\* BasePagination.begin_count
begin_count == Min2(((page - 1) * per_page) + 1, count)

\* BasePagination.end_count
end_count == Min2(begin_count + per_page - 1, count)

GetPages ==
    /\ pg_ret' = [op |-> "pages", value |-> pages]
    /\ UNCHANGED <<page, per_page, data, notPg>>

GetBeginCount ==
    /\ pg_ret' = [op |-> "begin_count", value |-> begin_count]
    /\ UNCHANGED <<page, per_page, data, notPg>>

GetEndCount ==
    /\ pg_ret' = [op |-> "end_count", value |-> end_count]
    /\ UNCHANGED <<page, per_page, data, notPg>>

\* what iter_pages yields: a page number, or None for skipped pages
YieldNum(num) == [is_none |-> FALSE, num |-> num]

YieldNone == [is_none |-> TRUE, num |-> 0]

\* the condition of the loop of iter_pages on num
Shown(num, left_edge, left_current, right_current, right_edge) ==
    \/ num <= left_edge
    \/ (num > page - left_current - 1 /\ num < page + right_current)
    \/ num > pages - right_edge

\* the loop of iter_pages from num on, last being the last number yielded
RECURSIVE IterPagesFrom(_, _, _, _, _, _)
IterPagesFrom(num, last, left_edge, left_current, right_current, right_edge) ==
    IF num > pages THEN <<>>
    ELSE IF Shown(num, left_edge, left_current, right_current, right_edge)
    THEN (IF last + 1 # num THEN <<YieldNone>> ELSE <<>>)
         \o <<YieldNum(num)>>
         \o IterPagesFrom(num + 1, num, left_edge, left_current,
                          right_current, right_edge)
    ELSE IterPagesFrom(num + 1, last, left_edge, left_current,
                       right_current, right_edge)

\* list(self.iter_pages(left_edge, left_current, right_current, right_edge));
\* the call changes nothing on the object, so a second call right after one
\* is left out
IterPages(left_edge, left_current, right_current, right_edge) ==
    /\ pg_ret.op # "iter_pages"
    /\ pg_ret' = [op |-> "iter_pages",
                  value |-> IterPagesFrom(1, 0, left_edge, left_current,
                                          right_current, right_edge),
                  args |-> <<left_edge, left_current, right_current,
                             right_edge>>]
    /\ UNCHANGED <<page, per_page, data, notPg>>

\* the object a constructor call gives when it raises
NoObject == [page |-> 0, per_page |-> 0, data |-> <<>>]

\* Pagination(*args): Pagination.__init__(self, obj, domain, page, per_page,
\* order=None) binds the positional arguments in this order; with less than
\* four of them the call raises TypeError, and with four or five it passes
\* page and per_page, and no data, to BasePagination.__init__
Pagination(args) ==
    IF Len(args) < 4 \/ Len(args) > 5
    THEN [raised |-> TRUE, error |-> "TypeError", object |-> NoObject]
    ELSE [raised |-> FALSE, error |-> "none",
          object |-> [page |-> args[3], per_page |-> args[4], data |-> <<>>]]

\* BasePagination.next()
PgNext ==
    /\ pg_ret' = [op |-> "next"] @@ Pagination(<<page + 1, per_page, data>>)
    /\ UNCHANGED <<page, per_page, data, notPg>>

\* BasePagination.prev
PgPrev ==
    /\ pg_ret' = [op |-> "prev"] @@ Pagination(<<page - 1, per_page, data>>)
    /\ UNCHANGED <<page, per_page, data, notPg>>

\* BasePagination.has_prev
has_prev == page > 1

\* BasePagination.has_next
has_next == page < pages

GetHasPrev ==
    /\ pg_ret' = [op |-> "has_prev", value |-> has_prev]
    /\ UNCHANGED <<page, per_page, data, notPg>>

GetHasNext ==
    /\ pg_ret' = [op |-> "has_next", value |-> has_next]
    /\ UNCHANGED <<page, per_page, data, notPg>>

\* BasePagination.offset, for self.page = p and self.per_page = n
offset(p, n) == (p - 1) * n

\* a slip of items: the end of the slice is per_page, not offset + per_page
items_end_per_page(p, n, d) == Slice(d, offset(p, n), n)

\* BasePagination.items, for self.page = p, self.per_page = n, self.data = d
items(p, n, d) == Slice(d, offset(p, n), offset(p, n) + n)

\* BasePagination.all_items
all_items == data

GetItems ==
    /\ pg_ret' = [op |-> "items", value |-> items(page, per_page, data)]
    /\ UNCHANGED <<page, per_page, data, notPg>>

GetAllItems ==
    /\ pg_ret' = [op |-> "all_items", value |-> all_items]
    /\ UNCHANGED <<page, per_page, data, notPg>>

-----------------------------------------------------------------------------
(* SitemapIndex *)

\* SitemapIndex.batch_size
batch_size == 1000

\* the counts of the examples in the docstring of page_count
ExampleCounts == {1, 50000, 50001, 100000, 100001}

IdleSm == /\ sm_table = {1}
          /\ sm_match = {1}
          /\ sm_ret = NoRet

\* the largest ids of the tables of the model
LargestIds == (1..MaxSmallId) \cup ExampleCounts
                \cup {k * batch_size + d : k \in 1..2, d \in 0..1}

\* SitemapIndex.__init__, over a table without rows or a table whose largest
\* id is one of LargestIds (the other rows do not matter to the index), with
\* a domain that every row matches
InitSm == /\ sm_table \in {{}} \cup {{n} : n \in LargestIds}
          /\ sm_match = sm_table
          /\ sm_ret = NoRet

\* max() of a non-empty set of integers
Max(S) == CHOOSE x \in S : \A y \in S : y <= x

\* SELECT max(id) is NULL for a table without rows, and count is then None
CountIsNone == sm_table = {}

\* SitemapIndex.count: SELECT max(id) FROM table
sm_count == IF CountIsNone THEN None ELSE Max(sm_table)

\* a slip of page_count: Python 2 integer division, without float()
page_count_floor == sm_count \div batch_size

\* SitemapIndex.page_count
page_count == CeilDiv(sm_count, batch_size)

\* reading page_count: float(self.count) raises TypeError when count is None
GetPageCount ==
    /\ sm_ret' = IF CountIsNone
                  THEN [op |-> "page_count raised", value |-> "TypeError"]
                  ELSE [op |-> "page_count", value |-> page_count]
    /\ UNCHANGED <<sm_table, sm_match, notSm>>

-----------------------------------------------------------------------------
(* SitemapSection *)

\* SitemapSection.batch_size
section_batch_size == 1000

\* the ids a row of the model's table may have: the ends of the first pages
TableIds == {1, 999, 1000, 1001, 2000, 2001}

\* SitemapSection.min_id, for self.page = p
min_id(p) == (p - 1) * section_batch_size

\* a slip of max_id: the window is one id short
max_id_short(p) == min_id(p) + section_batch_size - 1

\* SitemapSection.max_id, for self.page = p
max_id(p) == min_id(p) + section_batch_size

IdleSs == ss_yield = <<>>

\* a table with some of the rows of TableIds, some of which match
\* self.domain, and no section iterated yet
InitSs == /\ sm_table \in SUBSET TableIds
          /\ sm_match \in SUBSET sm_table
          /\ sm_ret = NoRet
          /\ ss_yield = <<>>

\* a slip of the id clauses: the range min_id <= id < max_id
InWindow_half_open(id, p) == id >= min_id(p) /\ id < max_id(p)

\* the two clauses __iter__ puts before self.domain:
\* ('id', '>', self.min_id) and ('id', '<=', self.max_id)
InWindow(id, p) == id > min_id(p) /\ id <= max_id(p)

\* a set of ids as the list in ascending order
RECURSIVE Ascending(_)
Ascending(S) ==
    IF S = {} THEN <<>>
    ELSE LET least == CHOOSE x \in S : \A y \in S : x <= y
         IN  <<least>> \o Ascending(S \ {least})

\* self.model.search(domain): the rows that match the id clauses and
\* self.domain, in the order of their ids
SectionSearch(p) == Ascending({id \in sm_match : InWindow(id, p)})

\* iterating SitemapSection(model, domain, p): one search, then one url
\* element for each id found, in the order of the search
SectionIter(p) ==
    /\ p \notin DOMAIN ss_yield
    /\ ss_yield' = (p :> SectionSearch(p)) @@ ss_yield
    /\ UNCHANGED <<smVars, notSs>>

-----------------------------------------------------------------------------
(* SitemapIndex.render and SitemapSection.render *)

\* one buffer.write call: the element written and the page or id in it
Written(tag, n) == [tag |-> tag, n |-> n]

\* the writes of SitemapIndex.render before the loop
IndexHead ==
    <<Written("<?xml", 0), Written("<sitemapindex ", 0), Written("xmlns", 0)>>

\* the writes of the loop of SitemapIndex.render over xrange(1, k + 1)
IndexEntries(k) == [i \in 1..k |-> Written("<sitemap>", i)]

\* the write of SitemapIndex.render after the loop
IndexTail == <<Written("</sitemapindex>", 0)>>

\* the writes of SitemapSection.render before the loop
SectionHead == <<Written("<?xml", 0), Written("<urlset", 0)>>

\* the writes of the loop of SitemapSection.render for the first k ids of
\* the search
SectionEntries(ids, k) == [i \in 1..k |-> Written("<url>", ids[i])]

\* the write of SitemapSection.render after the loop
SectionTail == <<Written("</urlset>", 0)>>

\* the calls of render that may raise for reasons outside helpers.py
Faults == {"none", "url_for", "search", "browse", "send_file"}

NoRender == [op |-> "none", outcome |-> "none", error |-> "none",
             via |-> "none", page |-> 0]
NothingSent == [done |-> FALSE, ok |-> FALSE, body |-> <<>>]
NoFile == [exists |-> FALSE, content |-> <<>>]

IdleSr == /\ sr_x_sendfile = FALSE
          /\ sr_tmp = NoFile
          /\ sr_doc = <<>>
          /\ sr_seen = 0
          /\ sr_ret = NoRender
          /\ sr_sent = NothingSent

\* the ids a row may have in the tables that are rendered
RenderIds == {1, 1000, 1001, 2001}

\* an application with or without X-Sendfile, a table with some of the rows
\* of RenderIds, some of which match self.domain, and no render call made yet
InitSr == /\ sm_table \in SUBSET RenderIds
          /\ sm_match \in SUBSET sm_table
          /\ sm_ret = NoRet
          /\ sr_x_sendfile \in BOOLEAN
          /\ sr_tmp = NoFile
          /\ sr_doc = <<>>
          /\ sr_seen = 0
          /\ sr_ret = NoRender
          /\ sr_sent = NothingSent

\* the body of the with block of SitemapIndex.render: what it wrote and how
\* it ended, when the fault (if any) is met at the k-th call of the kind
IndexBody(fault, k) ==
    IF CountIsNone
    THEN [written |-> IndexHead, error |-> "TypeError"]
    ELSE IF fault = "url_for"
    THEN [written |-> IndexHead \o IndexEntries(k - 1), error |-> fault]
    ELSE [written |-> IndexHead \o IndexEntries(page_count) \o IndexTail,
          error |-> fault]

\* the body of the with block of SitemapSection.render for self.page = p
SectionBody(p, fault, k) ==
    LET ids == SectionSearch(p)
    IN  IF fault = "search"
        THEN [written |-> SectionHead, error |-> fault]
        ELSE IF fault = "browse"
        THEN [written |-> SectionHead \o SectionEntries(ids, k - 1),
              error |-> fault]
        ELSE [written |-> SectionHead \o SectionEntries(ids, Len(ids))
                            \o SectionTail,
              error |-> fault]

\* a slip of the with block: the file is closed and removed at the end of
\* the block only, so it stays when the block is left by an exception
TmpAfterWith_kept_on_raise(written, raised) ==
    [exists |-> raised, content |-> written]

\* leaving the with block of NamedTemporaryFile, by return or by exception:
\* close() writes out what is still buffered and removes the file
TmpAfterWith(written, raised) == [exists |-> FALSE, content |-> written]

\* send_file(buffer.name): the X-Sendfile header with the name of the file,
\* or a wrapper around the file opened by its name
send_file == IF sr_x_sendfile THEN "X-Sendfile" ELSE "file"

\* render as a whole: the with block, send_file at its end, and the exit of
\* the block.  flushed is how many of the writes had left the buffer of the
\* file object when send_file was called: render never calls flush(), so
\* that is decided by the size of the buffer of the file object.
Render(op, p, body, flushed) ==
    /\ sr_ret = NoRender
    /\ flushed \in 0..Len(body.written)
    /\ body.error \notin {"none", "send_file"} => flushed = 0
    /\ sr_doc' = body.written
    /\ sr_seen' = flushed
    /\ sr_tmp' = TmpAfterWith(body.written, body.error # "none")
    /\ sr_ret' = IF body.error = "none"
                  THEN [op |-> op, outcome |-> "response", error |-> "none",
                        via |-> send_file, page |-> p]
                  ELSE [op |-> op, outcome |-> "raised", error |-> body.error,
                        via |-> "none", page |-> p]
    /\ UNCHANGED <<sr_x_sendfile, sr_sent, smVars, notSr>>

\* SitemapIndex.render
RenderIndex(fault, k, flushed) ==
    /\ fault \in {"none", "url_for", "send_file"}
    /\ CountIsNone => fault = "none"
    /\ IF fault = "url_for" /\ ~CountIsNone THEN k \in 1..page_count ELSE k = 0
    /\ Render("index", 0, IndexBody(fault, k), flushed)

\* SitemapSection.render, for self.page = p
RenderSection(p, fault, k, flushed) ==
    /\ fault \in {"none", "search", "browse", "send_file"}
    /\ IF fault = "browse" THEN k \in 1..Len(SectionSearch(p)) ELSE k = 0
    /\ Render("section", p, SectionBody(p, fault, k), flushed)

\* the response is sent after render has returned it: the WSGI server reads
\* the wrapped file, which stays readable through the open file object, or
\* the web server in front opens the file named by X-Sendfile
Transmit ==
    /\ sr_ret.outcome = "response"
    /\ ~sr_sent.done
    /\ sr_sent' = IF sr_ret.via = "file" \/ sr_tmp.exists
                   THEN [done |-> TRUE, ok |-> TRUE, body |-> sr_tmp.content]
                   ELSE [done |-> TRUE, ok |-> FALSE, body |-> <<>>]
    /\ UNCHANGED <<sr_x_sendfile, sr_tmp, sr_doc, sr_seen, sr_ret, smVars,
                   notSr>>

-----------------------------------------------------------------------------
(* secure and login_required *)

\* the keys a session may hold
SessionKeys == {"user", "_flashes", "language"}

\* request.url: the scheme, then pieces of host, path and query string; a
\* query string may hold the text 'http://' or 'https://' again
Schemes == {"http://", "https://"}

UrlPieces == {"host/", "?next=", "http://", "https://"}

Urls == {<<s>> \o rest : s \in Schemes,
                         rest \in UNION {[1..n -> UrlPieces] : n \in 0..MaxUrlPieces}}

NoResponse == [decorator |-> "none", kind |-> "none", endpoint |-> "none",
               location |-> <<>>]

IdleGt == /\ gt_session = {}
          /\ gt_url = <<"http://">>
          /\ gt_calls = 0
          /\ gt_ret = NoResponse

\* a request with some session and some URL, before the decorated view is
\* called
InitGt == /\ gt_session \in SUBSET SessionKeys
          /\ gt_url \in Urls
          /\ gt_calls = 0
          /\ gt_ret = NoResponse

\* request.is_secure: the scheme of the request is https
is_secure == gt_url[1] = "https://"

\* url.replace('http://', 'https://'): every occurrence is replaced
ReplaceHttp(url) ==
    [i \in 1..Len(url) |-> IF url[i] = "http://" THEN "https://" ELSE url[i]]

\* a slip of login_required: any session that is not empty passes
LoggedIn_any_session == gt_session # {}

\* 'user' in session
LoggedIn == "user" \in gt_session

\* function(*args, **kwargs): the wrapped view runs and its response is
\* returned
ViewResponse(decorator) ==
    [decorator |-> decorator, kind |-> "view", endpoint |-> "none",
     location |-> <<>>]

\* calling a view decorated with secure
Secure ==
    /\ gt_ret = NoResponse
    /\ IF ~is_secure
       THEN /\ gt_ret' = [decorator |-> "secure", kind |-> "redirect",
                          endpoint |-> "none",
                          location |-> ReplaceHttp(gt_url)]
            /\ gt_calls' = gt_calls
       ELSE /\ gt_ret' = ViewResponse("secure")
            /\ gt_calls' = gt_calls + 1
    /\ UNCHANGED <<gt_session, gt_url, notGt>>

\* calling a view decorated with login_required: the redirect goes to
\* url_for('nereid.website.login', next=request.url)
LoginRequired ==
    /\ gt_ret = NoResponse
    /\ IF ~LoggedIn
       THEN /\ gt_ret' = [decorator |-> "login_required", kind |-> "redirect",
                          endpoint |-> "nereid.website.login",
                          location |-> gt_url]
            /\ gt_calls' = gt_calls
       ELSE /\ gt_ret' = ViewResponse("login_required")
            /\ gt_calls' = gt_calls + 1
    /\ UNCHANGED <<gt_session, gt_url, notGt>>

-----------------------------------------------------------------------------
(* make_crumbs *)

\* the ids of the records; 0 stands for a browse record that is false, as
\* the parent of a record without parent is
Nodes == {1, 2, 3}

NoCrumbs == [op |-> "none", value |-> <<>>, browse_record |-> 0,
             add_home |-> FALSE, max_depth |-> 0, root_ids |-> {}]

IdleMc == /\ mc_parent = [n \in Nodes |-> 0]
          /\ mc_ret = NoCrumbs

\* any parent field, chains with cycles included
InitMc == /\ mc_parent \in [Nodes -> Nodes \cup {0}]
          /\ mc_ret = NoCrumbs

\* data_pair: the url of the record for the endpoint, and its title
Crumb(node) == [endpoint |-> "endpoint", node |-> node]

\* (url_for('nereid.website.home'), 'Home')
Home == [endpoint |-> "nereid.website.home", node |-> 0]

\* a slip of recurse: one level more than max_depth
Stops_one_deeper(node, level, max_depth) == level > max_depth + 1 \/ node = 0

\* recurse: level > max_depth or not node
Stops(node, level, max_depth) == level > max_depth \/ node = 0

\* recurse(node, level)
RECURSIVE Recurse(_, _, _, _)
Recurse(node, level, max_depth, root_ids) ==
    IF Stops(node, level, max_depth) THEN <<>>
    ELSE IF node \in root_ids THEN <<Crumb(node)>>
    ELSE <<Crumb(node)>>
         \o Recurse(mc_parent[node], level + 1, max_depth, root_ids)

\* list.reverse()
Reverse(s) == [i \in 1..Len(s) |-> s[Len(s) + 1 - i]]

\* make_crumbs(browse_record, endpoint, add_home, max_depth, None, root_ids)
MakeCrumbs(browse_record, add_home, max_depth, root_ids) ==
    /\ mc_ret.op = "none"
    /\ LET crumbs == Recurse(browse_record, 1, max_depth, root_ids)
           with_home == IF add_home THEN Append(crumbs, Home) ELSE crumbs
       IN  mc_ret' = [op |-> "make_crumbs", value |-> Reverse(with_home),
                      browse_record |-> browse_record,
                      add_home |-> add_home, max_depth |-> max_depth,
                      root_ids |-> root_ids]
    /\ UNCHANGED <<mc_parent, notMc>>

-----------------------------------------------------------------------------
(* slugify *)

\* The characters of the model. "U+00E9" is e with acute accent, which NFKD
\* decomposes into e and the combining accent "U+0301"; "U+00A0" is the
\* no-break space, which NFKD maps to a space. In a str argument the two
\* stand for their (non-ASCII) bytes.
Chars == {"a", "A", " ", "-", "_", "!", "U+00E9", "U+00A0"}
NonAscii == {"U+00E9", "U+00A0", "U+0301"}
\* \s of the two regular expressions, and what strip() removes
Whitespace == {" "}
\* \w of _SLUGIFY_STRIP_RE, on the ASCII string that encode() returns
WordChars == {"a", "A", "e", "_"}

\* all sequences over S of length at most n
SeqsUpTo(S, n) == UNION {[1..k -> S] : k \in 0..n}

\* ''.join of a sequence of strings
RECURSIVE Concat(_)
Concat(ss) == IF ss = <<>> THEN <<>> ELSE Head(ss) \o Concat(Tail(ss))

\* unicode(value, errors='ignore'): ASCII decoding that drops other bytes
DecodeIgnore(value) == SelectSeq(value, LAMBDA c : c \notin NonAscii)

\* unicodedata.normalize('NFKD', c) of one character
NFKDChar(c) == CASE c = "U+00E9" -> <<"e", "U+0301">>
                 [] c = "U+00A0" -> <<" ">>
                 [] OTHER -> <<c>>

\* unicodedata.normalize('NFKD', value)
NFKD(value) == Concat([i \in 1..Len(value) |-> NFKDChar(value[i])])

\* .encode('ascii', 'ignore')
EncodeAsciiIgnore(value) == SelectSeq(value, LAMBDA c : c \notin NonAscii)

\* _SLUGIFY_STRIP_RE.sub('', value): drops every character not in [\w\s-]
StripRe(value) ==
    SelectSeq(value, LAMBDA c : c \in WordChars \cup Whitespace \cup {"-"})

\* str.strip(): drops leading and trailing whitespace
RECURSIVE LStrip(_)
LStrip(value) == IF value # <<>> /\ Head(value) \in Whitespace
                 THEN LStrip(Tail(value)) ELSE value
RECURSIVE RStrip(_)
RStrip(value) == IF value # <<>> /\ value[Len(value)] \in Whitespace
                 THEN RStrip(SubSeq(value, 1, Len(value) - 1)) ELSE value
Strip(value) == RStrip(LStrip(value))

\* str.lower()
Lower(value) == [i \in 1..Len(value) |-> IF value[i] = "A" THEN "a" ELSE value[i]]

\* _SLUGIFY_HYPHENATE_RE.sub('-', value): every maximal run of [-\s]
\* becomes one hyphen
RECURSIVE HyphenateRe(_)
HyphenateRe(value) ==
    IF value = <<>> THEN <<>>
    ELSE IF Head(value) \in Whitespace \cup {"-"}
         THEN IF Len(value) >= 2 /\ value[2] \in Whitespace \cup {"-"}
              THEN HyphenateRe(Tail(value))
              ELSE <<"-">> \o HyphenateRe(Tail(value))
         ELSE <<Head(value)>> \o HyphenateRe(Tail(value))

\* a slip of slugify: the two substitutions in the other order
slugify_hyphenate_first(kind, value) ==
    LET u == IF kind = "unicode" THEN value ELSE DecodeIgnore(value)
        a == EncodeAsciiIgnore(NFKD(u))
    IN  Lower(Strip(StripRe(HyphenateRe(a))))

\* slugify(value)
slugify(kind, value) ==
    LET u == IF kind = "unicode" THEN value ELSE DecodeIgnore(value)
        a == EncodeAsciiIgnore(NFKD(u))
        v == Lower(Strip(StripRe(a)))
    IN  HyphenateRe(v)

IdleSl == /\ sl_kind = "unicode"
          /\ sl_value = <<>>
          /\ sl_out = <<>>

\* any str or unicode argument of at most MaxSlugLen characters
InitSl == /\ sl_kind \in {"str", "unicode"}
          /\ sl_value \in SeqsUpTo(Chars, MaxSlugLen)
          /\ sl_out = <<>>

\* slugify(x)
Slugify ==
    /\ sl_out = <<>>
    /\ sl_out' = <<slugify(sl_kind, sl_value)>>
    /\ UNCHANGED <<sl_kind, sl_value, notSl>>

\* slugify(slugify(x)): the first result is a unicode string
SlugifyAgain ==
    /\ Len(sl_out) = 1
    /\ sl_out' = Append(sl_out, slugify("unicode", sl_out[1]))
    /\ UNCHANGED <<sl_kind, sl_value, notSl>>

-----------------------------------------------------------------------------
(* flash and get_flashed_messages *)

\* the messages and categories passed to flash(): a unicode string and an
\* object that is not a string (the integer 7), each with its text
Messages == {[type |-> "unicode", text |-> "saved"],
             [type |-> "int", text |-> "7"]}
Categories == {"message", "error"}

\* unicode(message): the message itself when it is a unicode string, the
\* text of the object otherwise
Unicode(message) == message.text

\* a slip of the test of get_flashed_messages: "if not flashes"
NeedsDrainIfEmpty(flashes) == flashes = None \/ flashes = <<>>

\* get_flashed_messages: "if flashes is None"
NeedsDrain(flashes) == flashes = None

\* a slip of the list comprehension: x[0], the categories
CategoriesOf(flashes) == [i \in 1..Len(flashes) |-> flashes[i][1]]

\* [x[1] for x in flashes]
TextsOf(flashes) == [i \in 1..Len(flashes) |-> flashes[i][2]]

\* a slip of the pop: session.get('_flashes'), which leaves the key
SessionAfterPop_key_left(flashes) == flashes

\* session.pop('_flashes') if '_flashes' in session: the key is gone
SessionAfterPop(flashes) == None

IdleFl == /\ fl_session = None
          /\ fl_ctx = None
          /\ fl_ret = NoRet
          /\ fl_req = 1
          /\ fl_gets = 0
          /\ fl_log = <<>>
          /\ fl_taken = 0
          /\ fl_first = None
          /\ fl_repop = FALSE
          /\ fl_cycles = <<>>

\* a new session and its first request: nothing queued, and the request
\* context holds no flashes yet
InitFl == IdleFl

\* flash(message, category)
Flash(message, category) ==
    /\ Len(fl_log) < MaxFlashes
    /\ LET pair == <<category, Unicode(message)>>
       IN  /\ fl_session' = IF fl_session = None THEN <<pair>>
                                                ELSE Append(fl_session, pair)
           /\ fl_log' = Append(fl_log, pair)
    /\ fl_ret' = [op |-> "flash", value |-> None]
    /\ UNCHANGED <<fl_ctx, fl_req, fl_gets, fl_taken, fl_first, fl_repop,
                   fl_cycles, notFl>>

\* get_flashed_messages(with_categories)
GetFlashedMessages(with_categories) ==
    /\ fl_gets < MaxGets
    /\ LET drain == NeedsDrain(fl_ctx)
           flashes == IF ~drain THEN fl_ctx
                      ELSE IF fl_session # None THEN fl_session ELSE <<>>
       IN  /\ fl_ctx' = flashes
           /\ fl_session' = IF drain THEN SessionAfterPop(fl_session)
                                   ELSE fl_session
           /\ fl_cycles' =
                IF fl_gets = 0
                THEN (fl_req :> [mark |-> Len(fl_log), got |-> flashes])
                         @@ fl_cycles
                ELSE [fl_cycles EXCEPT ![fl_req].got = flashes]
           /\ fl_ret' = [op |-> "get", with_categories |-> with_categories,
                         value |-> IF with_categories THEN flashes
                                   ELSE TextsOf(flashes)]
           /\ fl_repop' = (fl_repop \/ (fl_gets >= 1 /\ drain /\ fl_session # None))
    /\ fl_gets' = fl_gets + 1
    /\ IF fl_gets = 0
       THEN /\ fl_first' = SubSeq(fl_log, fl_taken + 1, Len(fl_log))
            /\ fl_taken' = Len(fl_log)
       ELSE UNCHANGED <<fl_first, fl_taken>>
    /\ UNCHANGED <<fl_req, fl_log, notFl>>

\* The next request cycle of the same session: a new request context, whose
\* flashes attribute is None; the session is kept.
NewRequest ==
    /\ fl_req < MaxRequests
    /\ fl_req' = fl_req + 1
    /\ fl_ctx' = None
    /\ fl_gets' = 0
    /\ fl_first' = None
    /\ fl_ret' = [op |-> "request", value |-> None]
    /\ UNCHANGED <<fl_session, fl_log, fl_taken, fl_repop, fl_cycles, notFl>>

-----------------------------------------------------------------------------
(* send_from_directory *)

\* A path string is modelled by the sequence of its parts, path.split('/'):
\* '/x' is <<"", "x">>, 'a/../../x' is <<"a", "..", "..", "x">>, '' is <<"">>
\* and '/' is <<"", "">>. The parts of the model:
Parts == {"", ".", "..", "a", "x"}

\* The file system: its directories are /, /d and /d/a; a regular file may
\* exist at /x, /d/x and /d/a/x. A resolved path is the sequence of names
\* from the root.
Dirs == {<<>>, <<"d">>, <<"d", "a">>}
FileCandidates == {<<"x">>, <<"d", "x">>, <<"d", "a", "x">>}

\* the directory arguments of the model: '/d' and '/d/a/'
Directories == {<<"", "d">>, <<"", "d", "a", "">>}

\* path.startswith('/')
StartsWithSlash(path) == Len(path) >= 2 /\ path[1] = ""

\* path.startswith('../')
StartsWithDotDotSlash(path) == Len(path) >= 2 /\ path[1] = ".."

\* the loop of posixpath.normpath over the parts of the path
RECURSIVE NormComps(_, _, _)
NormComps(comps, new_comps, initial_slashes) ==
    IF comps = <<>> THEN new_comps
    ELSE LET comp == Head(comps)
             next ==
                 IF comp \in {"", "."} THEN new_comps
                 ELSE IF \/ comp # ".."
                         \/ (initial_slashes = 0 /\ new_comps = <<>>)
                         \/ (new_comps # <<>> /\ new_comps[Len(new_comps)] = "..")
                      THEN Append(new_comps, comp)
                      ELSE IF new_comps # <<>>
                           THEN SubSeq(new_comps, 1, Len(new_comps) - 1)
                           ELSE new_comps
         IN  NormComps(Tail(comps), next, initial_slashes)

\* posixpath.normpath(path)
normpath(path) ==
    IF path = <<"">> THEN <<".">>
    ELSE LET initial_slashes ==
                 IF ~StartsWithSlash(path) THEN 0
                 ELSE IF /\ Len(path) >= 3 /\ path[2] = ""
                         /\ ~(Len(path) >= 4 /\ path[3] = "")
                      THEN 2 ELSE 1
             comps == NormComps(path, <<>>, initial_slashes)
         IN  IF initial_slashes = 0
             THEN (IF comps = <<>> THEN <<".">> ELSE comps)
             ELSE [i \in 1..initial_slashes |-> ""]
                      \o (IF comps = <<>> THEN <<"">> ELSE comps)

\* os.path.join(a, b)
PathJoin(a, b) ==
    IF StartsWithSlash(b) THEN b
    ELSE IF a = <<"">> THEN b
    ELSE IF a[Len(a)] = "" THEN SubSeq(a, 1, Len(a) - 1) \o b
    ELSE a \o b

\* What an absolute path names in the file system: the names from the root
\* (at), and whether every part of it was looked up in a directory (ok).
RECURSIVE Walk(_, _)
Walk(parts, cur) ==
    IF parts = <<>> THEN [ok |-> TRUE, at |-> cur]
    ELSE IF cur \notin Dirs THEN [ok |-> FALSE, at |-> cur]
    ELSE LET part == Head(parts)
             next == IF part \in {"", "."} THEN cur
                     ELSE IF part = ".."
                          THEN (IF cur = <<>> THEN cur
                                ELSE SubSeq(cur, 1, Len(cur) - 1))
                          ELSE Append(cur, part)
         IN  Walk(Tail(parts), next)

Resolve(path) == Walk(Tail(path), <<>>)

\* os.path.isfile(path), for an absolute path
IsFile(path) == Resolve(path).ok /\ Resolve(path).at \in sd_files

\* a slip of the test of send_from_directory: only absolute names refused
UnsafeName_absolute_only(filename) == StartsWithSlash(filename)

\* send_from_directory: filename.startswith(('/', '../'))
UnsafeName(filename) ==
    StartsWithSlash(filename) \/ StartsWithDotDotSlash(filename)

IdleSd == /\ sd_directory = <<"", "d">>
          /\ sd_filename = <<"">>
          /\ sd_files = {}
          /\ sd_ret = NoRet

\* any filename of at most MaxParts parts, either directory, any files
InitSd == /\ sd_directory \in Directories
          /\ sd_filename \in UNION {[1..k -> Parts] : k \in 1..MaxParts}
          /\ sd_files \in SUBSET FileCandidates
          /\ sd_ret = NoRet

\* send_from_directory(directory, filename)
SendFromDirectory ==
    /\ sd_ret.op = "none"
    /\ LET filename == normpath(sd_filename)
           joined == PathJoin(sd_directory, filename)
       IN  sd_ret' =
               IF UnsafeName(filename)
               THEN [op |-> "send_from_directory", outcome |-> "NotFound",
                     path |-> None]
               ELSE IF ~IsFile(joined)
               THEN [op |-> "send_from_directory", outcome |-> "NotFound",
                     path |-> None]
               ELSE [op |-> "send_from_directory", outcome |-> "send_file",
                     path |-> joined]
    /\ UNCHANGED <<sd_directory, sd_filename, sd_files, notSd>>

-----------------------------------------------------------------------------
(* SphinxPagination *)

\* What a Query on the search server gives: a result dictionary, or None
\* after a failure whose text GetLastError() then returns.
SxReplies ==
    {[ok |-> TRUE, error |-> "",
      result |-> [total_found |-> 0, matches |-> <<>>]],
     [ok |-> TRUE, error |-> "",
      result |-> [total_found |-> 3, matches |-> <<[id |-> 11], [id |-> 12]>>]],
     [ok |-> FALSE, error |-> "connection refused", result |-> None],
     [ok |-> FALSE, error |-> "unknown index", result |-> None]}

\* a slip of result: a plain property, nothing is kept
ResultNeverCached == FALSE

\* cached_property: 'result' is in the object's __dict__
ResultCached == "result" \in DOMAIN sx_dict

\* cached_property: 'count' is in the object's __dict__
CountCached == "count" \in DOMAIN sx_dict

\* BasePagination.offset of the SphinxPagination object
sx_offset == (sx_page - 1) * sx_per_page

\* The client calls that reading self.result makes, for the reply the
\* server would give to a Query: with the value cached nothing is sent;
\* otherwise SetLimits and Query are called.
ReadResult(by, reply) ==
    IF ResultCached
    THEN UNCHANGED <<sx_limits, sx_queries>>
    ELSE /\ sx_limits' = <<sx_offset, sx_per_page>>
         /\ sx_queries' = Append(sx_queries,
                [by |-> by, limits |-> <<sx_offset, sx_per_page>>,
                 ok |-> reply.ok])

\* the object's __dict__ after reading self.result: cached_property stores
\* the value that the function returned, and nothing when it raised
DictAfterResult(reply) ==
    IF ResultCached \/ ~reply.ok THEN sx_dict
    ELSE ("result" :> reply.result) @@ sx_dict

\* whether reading self.result raises, and the value it returns otherwise
ResultRaises(reply) == ~ResultCached /\ ~reply.ok
ResultValue(reply) == IF ResultCached THEN sx_dict["result"] ELSE reply.result

\* the outcome of an operation that read self.result
SxOutcome(op, reply, value) ==
    IF ResultRaises(reply)
    THEN [op |-> op, outcome |-> "raise", type |-> "Exception",
          value |-> reply.error, query_failed |-> TRUE, error |-> reply.error]
    ELSE [op |-> op, outcome |-> "return", type |-> "",
          value |-> value, query_failed |-> FALSE, error |-> ""]

IdleSx == /\ sx_enabled = TRUE
          /\ sx_made = "no"
          /\ sx_page = 1
          /\ sx_per_page = 1
          /\ sx_dict = <<>>
          /\ sx_limits = None
          /\ sx_queries = <<>>
          /\ sx_accesses = 0
          /\ sx_ret = NoRet

\* before SphinxPagination(obj, query, search_index, page, per_page)
InitSx == /\ sx_enabled \in BOOLEAN
          /\ sx_made = "no"
          /\ sx_page \in {1, 2}
          /\ sx_per_page \in {1, 10}
          /\ sx_dict = <<>>
          /\ sx_limits = None
          /\ sx_queries = <<>>
          /\ sx_accesses = 0
          /\ sx_ret = NoRet

\* SphinxPagination.__init__
SxConstruct ==
    /\ sx_made = "no"
    /\ IF ~sx_enabled
       THEN /\ sx_made' = "failed"
            /\ sx_ret' = [op |-> "__init__", outcome |-> "raise",
                          type |-> "RuntimeError",
                          value |-> "Sphinx is not available or configured",
                          query_failed |-> FALSE, error |-> ""]
       ELSE /\ sx_made' = "yes"
            /\ sx_ret' = [op |-> "__init__", outcome |-> "return", type |-> "",
                          value |-> None, query_failed |-> FALSE, error |-> ""]
    /\ UNCHANGED <<sx_enabled, sx_page, sx_per_page, sx_dict, sx_limits,
                   sx_queries, sx_accesses, notSx>>

\* reading SphinxPagination.result
SxResult(reply) ==
    /\ sx_made = "yes"
    /\ sx_accesses < MaxAccesses
    /\ ReadResult("result", reply)
    /\ sx_dict' = DictAfterResult(reply)
    /\ sx_ret' = SxOutcome("result", reply, ResultValue(reply))
    /\ sx_accesses' = sx_accesses + 1
    /\ UNCHANGED <<sx_enabled, sx_made, sx_page, sx_per_page, notSx>>

\* reading SphinxPagination.count
SxCount(reply) ==
    /\ sx_made = "yes"
    /\ sx_accesses < MaxAccesses
    /\ IF CountCached
       THEN /\ sx_ret' = [op |-> "count", outcome |-> "return", type |-> "",
                          value |-> sx_dict["count"],
                          query_failed |-> FALSE, error |-> ""]
            /\ UNCHANGED <<sx_dict, sx_limits, sx_queries>>
       ELSE /\ ReadResult("count", reply)
            /\ sx_ret' = SxOutcome("count", reply,
                                   ResultValue(reply).total_found)
            /\ sx_dict' = IF ResultRaises(reply) THEN DictAfterResult(reply)
                          ELSE ("count" :> ResultValue(reply).total_found)
                                   @@ DictAfterResult(reply)
    /\ sx_accesses' = sx_accesses + 1
    /\ UNCHANGED <<sx_enabled, sx_made, sx_page, sx_per_page, notSx>>

\* SphinxPagination.items(): obj.browse of the ids of the matches
SxItems(reply) ==
    /\ sx_made = "yes"
    /\ sx_accesses < MaxAccesses
    /\ ReadResult("items", reply)
    /\ sx_dict' = DictAfterResult(reply)
    /\ sx_ret' = SxOutcome("items", reply,
            [browse |-> [i \in 1..Len(ResultValue(reply).matches) |->
                            ResultValue(reply).matches[i].id]])
    /\ sx_accesses' = sx_accesses + 1
    /\ UNCHANGED <<sx_enabled, sx_made, sx_page, sx_per_page, notSx>>

\* SphinxPagination.all_items(): calls SetLimit(0, 1000) on the client and
\* returns what Query returns. The client class is not part of the sources
\* at hand; has_SetLimit is whether it has a method of that name (the
\* method the other operations call is SetLimits).
SxAllItems(reply, has_SetLimit) ==
    /\ sx_made = "yes"
    /\ Len(sx_queries) < MaxQueries
    /\ IF ~has_SetLimit
       THEN /\ sx_ret' = [op |-> "all_items", outcome |-> "raise",
                          type |-> "AttributeError", value |-> "SetLimit",
                          query_failed |-> FALSE, error |-> ""]
            /\ UNCHANGED <<sx_limits, sx_queries>>
       ELSE /\ sx_limits' = <<0, 1000>>
            /\ sx_queries' = Append(sx_queries,
                   [by |-> "all_items", limits |-> <<0, 1000>>, ok |-> reply.ok])
            /\ sx_ret' = [op |-> "all_items", outcome |-> "return", type |-> "",
                          value |-> reply.result, query_failed |-> ~reply.ok,
                          error |-> reply.error]
    /\ UNCHANGED <<sx_enabled, sx_made, sx_page, sx_per_page, sx_dict,
                   sx_accesses, notSx>>

-----------------------------------------------------------------------------
(* Pagination, over a search domain *)

\* the ID lists of the model: 9, 8, ... of every length up to MaxIds, which
\* are not in ascending order
IdLists == {[i \in 1..n |-> 10 - i] : n \in 0..MaxIds}

\* a clause (field, operator, value) of a domain
Clause(field, operator, value) ==
    [field |-> field, operator |-> operator, value |-> value]

\* The domains of the model: the empty domain, one clause ('id', 'in', ids),
\* that clause followed by another one, and single clauses with another
\* field or another operator.
Domains ==
    {<<>>}
    \cup {<<Clause("id", "in", ids)>> : ids \in IdLists}
    \cup {<<Clause("id", "in", ids), Clause("category", "in", <<1>>)>> :
              ids \in IdLists}
    \cup {<<Clause("id", "not in", <<9, 8>>)>>,
          <<Clause("category", "in", <<9, 8>>)>>}

Orders == {None, "name ASC"}

\* self._count: None (the class attribute), or a count the caller assigned
CountAttrs == {[is_none |-> TRUE, n |-> 0], [is_none |-> FALSE, n |-> 42]}

\* what obj.search may return for a page: any list of at most per_page IDs
SearchResults == {[i \in 1..n |-> 20 + i] : n \in 0..dp_per_page}

\* a slip of ids_domain: the order is not looked at
ids_domain_any_order ==
    /\ Len(dp_domain) = 1
    /\ dp_domain[1].field = "id"
    /\ dp_domain[1].operator = "in"

\* Pagination.ids_domain()
ids_domain ==
    /\ Len(dp_domain) = 1
    /\ dp_domain[1].field = "id"
    /\ dp_domain[1].operator = "in"
    /\ dp_order = None

\* BasePagination.offset of the Pagination object
dp_offset == (dp_page - 1) * dp_per_page

IdleDp == /\ dp_domain = <<>>
          /\ dp_order = None
          /\ dp_page = 1
          /\ dp_per_page = 1
          /\ dp_count_attr = [is_none |-> TRUE, n |-> 0]
          /\ dp_dict = <<>>
          /\ dp_calls = <<>>
          /\ dp_ret = NoRet

\* Pagination.__init__(obj, domain, page, per_page, order)
InitDp == /\ dp_domain \in Domains
          /\ dp_order \in Orders
          /\ dp_page \in 1..MaxPage
          /\ dp_per_page \in 1..MaxPerPage
          /\ dp_count_attr \in CountAttrs
          /\ dp_dict = <<>>
          /\ dp_calls = <<>>
          /\ dp_ret = NoRet

\* reading Pagination.count, a cached_property; found is what
\* obj.search(domain=..., count=True) would return
DpCount(found) ==
    /\ IF "count" \in DOMAIN dp_dict
       THEN /\ dp_ret' = [op |-> "count", value |-> dp_dict["count"]]
            /\ dp_calls' = <<>>
            /\ UNCHANGED dp_dict
       ELSE IF ids_domain
       THEN /\ dp_ret' = [op |-> "count", value |-> Len(dp_domain[1].value)]
            /\ dp_calls' = <<>>
            /\ dp_dict' = ("count" :> Len(dp_domain[1].value))
       ELSE IF ~dp_count_attr.is_none
       THEN /\ dp_ret' = [op |-> "count", value |-> dp_count_attr.n]
            /\ dp_calls' = <<>>
            /\ dp_dict' = ("count" :> dp_count_attr.n)
       ELSE /\ dp_ret' = [op |-> "count", value |-> found]
            /\ dp_calls' = <<[fn |-> "search", domain |-> dp_domain,
                              count |-> TRUE]>>
            /\ dp_dict' = ("count" :> found)
    /\ UNCHANGED <<dp_domain, dp_order, dp_page, dp_per_page, dp_count_attr,
                   notDp>>

\* Pagination.all_items(); found is what obj.search(domain) would return
DpAllItems(found) ==
    /\ IF ids_domain
       THEN /\ dp_calls' = <<[fn |-> "browse", ids |-> dp_domain[1].value]>>
            /\ dp_ret' = [op |-> "all_items",
                          value |-> [browse |-> dp_domain[1].value]]
       ELSE /\ dp_calls' = <<[fn |-> "search", domain |-> dp_domain,
                              count |-> FALSE],
                             [fn |-> "browse", ids |-> found]>>
            /\ dp_ret' = [op |-> "all_items", value |-> [browse |-> found]]
    /\ UNCHANGED <<dp_domain, dp_order, dp_page, dp_per_page, dp_count_attr,
                   dp_dict, notDp>>

\* Pagination.items(); found is what obj.search(domain, offset=..., limit=...,
\* order=...) would return
DpItems(found) ==
    /\ IF ids_domain
       THEN LET ids == Slice(dp_domain[1].value, dp_offset,
                             dp_offset + dp_per_page)
            IN  /\ dp_calls' = <<[fn |-> "browse", ids |-> ids]>>
                /\ dp_ret' = [op |-> "items", value |-> [browse |-> ids]]
       ELSE /\ dp_calls' = <<[fn |-> "search", domain |-> dp_domain,
                              count |-> FALSE, offset |-> dp_offset,
                              limit |-> dp_per_page, order |-> dp_order],
                             [fn |-> "browse", ids |-> found]>>
            /\ dp_ret' = [op |-> "items", value |-> [browse |-> found]]
    /\ UNCHANGED <<dp_domain, dp_order, dp_page, dp_per_page, dp_count_attr,
                   dp_dict, notDp>>

-----------------------------------------------------------------------------
(* Specifications *)

\* a BasePagination object, nothing else in use
StartPg ==
    InitPg /\ IdleSm /\ IdleSs /\ IdleSr /\ IdleGt /\ IdleMc /\ IdleSl /\
    IdleFl /\ IdleSd /\ IdleSx /\ IdleDp

NextPg ==
    \/ GetPages
    \/ GetBeginCount
    \/ GetEndCount
    \/ PgNext
    \/ PgPrev
    \/ GetHasPrev
    \/ GetHasNext
    \/ GetItems
    \/ GetAllItems
    \/ \E left_edge, left_current, right_current, right_edge \in 0..MaxEdge :
            IterPages(left_edge, left_current, right_current, right_edge)

SpecPg == StartPg /\ [][NextPg]_vars

\* a SitemapIndex object, nothing else in use
StartSm ==
    InitSm /\ IdlePg /\ IdleSs /\ IdleSr /\ IdleGt /\ IdleMc /\ IdleSl /\
    IdleFl /\ IdleSd /\ IdleSx /\ IdleDp

NextSm == GetPageCount

SpecSm == StartSm /\ [][NextSm]_vars

\* SitemapSection, iterated page by page, and the page_count of the
\* SitemapIndex of the same model and domain
StartSs ==
    InitSs /\ IdlePg /\ IdleSr /\ IdleGt /\ IdleMc /\ IdleSl /\ IdleFl /\
    IdleSd /\ IdleSx /\ IdleDp

NextSs ==
    \/ \E p \in 1..MaxSitemapPage : SectionIter(p)
    \/ GetPageCount

SpecSs == StartSs /\ [][NextSs]_vars

\* views decorated with secure and with login_required
StartGt ==
    InitGt /\ IdlePg /\ IdleSm /\ IdleSs /\ IdleSr /\ IdleMc /\ IdleSl /\
    IdleFl /\ IdleSd /\ IdleSx /\ IdleDp

NextGt == Secure \/ LoginRequired

SpecGt == StartGt /\ [][NextGt]_vars

\* make_crumbs
StartMc ==
    InitMc /\ IdlePg /\ IdleSm /\ IdleSs /\ IdleSr /\ IdleGt /\ IdleSl /\
    IdleFl /\ IdleSd /\ IdleSx /\ IdleDp

NextMc ==
    \E browse_record \in Nodes \cup {0}, add_home \in BOOLEAN,
       max_depth \in 0..MaxDepth, root_ids \in SUBSET Nodes :
        MakeCrumbs(browse_record, add_home, max_depth, root_ids)

SpecMc == StartMc /\ [][NextMc]_vars

\* the render methods of the sitemap classes, and the transmission of the
\* response
StartSr ==
    InitSr /\ IdlePg /\ IdleSs /\ IdleGt /\ IdleMc /\ IdleSl /\ IdleFl /\
    IdleSd /\ IdleSx /\ IdleDp

NextSr ==
    \/ \E fault \in Faults, k \in 0..MaxEntries, flushed \in 0..MaxWrites :
            RenderIndex(fault, k, flushed)
    \/ \E p \in 1..MaxSitemapPage, fault \in Faults, k \in 0..MaxEntries,
          flushed \in 0..MaxWrites :
            RenderSection(p, fault, k, flushed)
    \/ Transmit

SpecSr == StartSr /\ [][NextSr]_vars

\* one argument of slugify, nothing else in use
StartSl ==
    InitSl /\ IdlePg /\ IdleSm /\ IdleSs /\ IdleSr /\ IdleGt /\ IdleMc /\
    IdleFl /\ IdleSd /\ IdleSx /\ IdleDp

NextSl == Slugify \/ SlugifyAgain

SpecSl == StartSl /\ [][NextSl]_vars

\* one session and its request cycles, nothing else in use
StartFl ==
    InitFl /\ IdlePg /\ IdleSm /\ IdleSs /\ IdleSr /\ IdleGt /\ IdleMc /\
    IdleSl /\ IdleSd /\ IdleSx /\ IdleDp

NextFl ==
    \/ \E m \in Messages, c \in Categories : Flash(m, c)
    \/ \E w \in BOOLEAN : GetFlashedMessages(w)
    \/ NewRequest

SpecFl == StartFl /\ [][NextFl]_vars

\* one call of send_from_directory, nothing else in use
StartSd ==
    InitSd /\ IdlePg /\ IdleSm /\ IdleSs /\ IdleSr /\ IdleGt /\ IdleMc /\
    IdleSl /\ IdleFl /\ IdleSx /\ IdleDp

NextSd == SendFromDirectory

SpecSd == StartSd /\ [][NextSd]_vars

\* one SphinxPagination object, nothing else in use
StartSx ==
    InitSx /\ IdlePg /\ IdleSm /\ IdleSs /\ IdleSr /\ IdleGt /\ IdleMc /\
    IdleSl /\ IdleFl /\ IdleSd /\ IdleDp

NextSx ==
    \/ SxConstruct
    \/ \E reply \in SxReplies : SxResult(reply)
    \/ \E reply \in SxReplies : SxCount(reply)
    \/ \E reply \in SxReplies : SxItems(reply)
    \/ \E reply \in SxReplies, has_SetLimit \in BOOLEAN :
           SxAllItems(reply, has_SetLimit)

SpecSx == StartSx /\ [][NextSx]_vars

\* one Pagination object, nothing else in use
StartDp ==
    InitDp /\ IdlePg /\ IdleSm /\ IdleSs /\ IdleSr /\ IdleGt /\ IdleMc /\
    IdleSl /\ IdleFl /\ IdleSd /\ IdleSx

NextDp ==
    \/ \E found \in 0..MaxCount : DpCount(found)
    \/ \E found \in SearchResults : DpAllItems(found)
    \/ \E found \in SearchResults : DpItems(found)

SpecDp == StartDp /\ [][NextDp]_vars

-----------------------------------------------------------------------------
(* Claims *)

\* C1: for count >= 0 and per_page > 0, pages is the ceiling of
\* count / per_page, i.e. the least integer n with n * per_page >= count;
\* pages is 0 when count is 0.
C1_PagesIsCeil ==
    pg_ret.op = "pages" =>
        /\ pg_ret.value * per_page >= count
        /\ (pg_ret.value - 1) * per_page < count
        /\ (count = 0 => pg_ret.value = 0)

\* C1 witness: pages was read on an object whose last page is not full
C1_Witness ==
    /\ pg_ret.op = "pages"
    /\ count > per_page
    /\ count % per_page # 0
    /\ pg_ret.value = (count \div per_page) + 1

\* C2: for page >= 1, per_page > 0 and count >= 0, begin_count and end_count
\* never exceed count (also on a page beyond the last one), begin_count <=
\* end_count, begin_count is 1 on page 1 when count > 0, and both are 0 when
\* count is 0.
C2_BeginEndWithinCount ==
    /\ pg_ret.op = "begin_count" =>
        /\ pg_ret.value <= count
        /\ pg_ret.value <= end_count
        /\ (page = 1 /\ count > 0 => pg_ret.value = 1)
        /\ (count = 0 => pg_ret.value = 0)
    /\ pg_ret.op = "end_count" =>
        /\ pg_ret.value <= count
        /\ begin_count <= pg_ret.value
        /\ (count = 0 => pg_ret.value = 0)

\* C2 witness: begin_count was read on a page beyond the last page of a
\* non-empty data set
C2_Witness ==
    /\ pg_ret.op = "begin_count"
    /\ count > 0
    /\ page > pages
    /\ pg_ret.value = count

C4_SlugifyIdempotent ==
    Len(sl_out) = 2 => sl_out[2] = sl_out[1]

\* C4 witness: slugify was applied twice to an argument with leading
\* whitespace and a stripped character between two separators
C4_Witness ==
    /\ Len(sl_out) = 2
    /\ sl_value = <<" ", "-", "!", "-">>
    /\ sl_out[1] = <<"-">>

\* C5: the flash queue is drained once per request cycle. Right after the
\* first get_flashed_messages call of a request the session holds no
\* '_flashes'; from that call on the request context holds exactly the pairs
\* (category, text) that flash() had queued and no earlier request had
\* taken, in queuing order; no later call of the request pops the session.
C5_DrainedOncePerRequest ==
    /\ ~fl_repop
    /\ (fl_gets >= 1 => fl_ctx = fl_first)
    /\ (fl_gets = 0 => fl_ctx = None)
    /\ (fl_ret.op = "get" /\ fl_gets = 1 => fl_session = None)

\* C5 witness: a request whose first call drained two queued pairs (one of a
\* message that is not a string), and that has called again after another
\* flash()
C5_Witness ==
    /\ fl_gets >= 2
    /\ fl_ret.op = "get"
    /\ fl_ctx = <<<<"error", "7">>, <<"message", "saved">>>>
    /\ fl_session # None

\* C6: within a request every get_flashed_messages call returns the
\* messages of the first call of that request, whatever flash() calls come
\* in between: the pairs with with_categories, and without it exactly the
\* texts of those pairs, in the same order.
C6_SameMessagesWithinRequest ==
    fl_ret.op = "get" =>
        IF fl_ret.with_categories
        THEN fl_ret.value = fl_first
        ELSE /\ Len(fl_ret.value) = Len(fl_first)
             /\ \A i \in 1..Len(fl_first) : fl_ret.value[i] = fl_first[i][2]

\* C6 witness: a later call of a request, made without categories after a
\* flash() that followed the first call, returns the text of the first call
C6_Witness ==
    /\ fl_ret.op = "get"
    /\ ~fl_ret.with_categories
    /\ fl_gets >= 2
    /\ fl_session # None
    /\ fl_first = <<<<"error", "saved">>>>
    /\ fl_ret.value = <<"saved">>

\* A filename is absolute when it begins with a slash. It points above the
\* directory when, read from the left, some prefix of it holds more '..'
\* parts than names.
IsAbsolute(filename) == Len(filename) >= 2 /\ filename[1] = ""
PointsAbove(filename) ==
    \E k \in 1..Len(filename) :
        Cardinality({i \in 1..k : filename[i] = ".."}) >
        Cardinality({i \in 1..k : filename[i] \notin {"", ".", ".."}})

\* the names of a directory argument, from the root
DirNames(directory) == SelectSeq(directory, LAMBDA part : part # "")

\* C7: send_from_directory raises NotFound, and does not call send_file,
\* for every filename that is absolute or points above the directory ('/x',
\* '../x', 'a/../../x', '..') and whenever the joined path is no existing
\* regular file; every path it passes to send_file is a regular file inside
\* the directory. (It raises NotFound in no other case: the last conjunct.)
C7_UnsafeOrMissingIsNotFound ==
    sd_ret.op = "send_from_directory" =>
        /\ (IsAbsolute(sd_filename) \/ PointsAbove(sd_filename)
                => sd_ret.outcome = "NotFound")
        /\ (sd_ret.outcome = "NotFound" => sd_ret.path = None)
        /\ (sd_ret.outcome = "send_file" =>
                LET file == Resolve(sd_ret.path).at
                    dir == DirNames(sd_directory)
                IN  /\ Resolve(sd_ret.path).ok
                    /\ file \in sd_files
                    /\ Len(file) > Len(dir)
                    /\ SubSeq(file, 1, Len(dir)) = dir)
        /\ (sd_ret.outcome # "send_file" =>
                \/ IsAbsolute(sd_filename) \/ PointsAbove(sd_filename)
                \/ ~Resolve(sd_directory \o sd_filename).ok
                \/ Resolve(sd_directory \o sd_filename).at \notin sd_files)

\* C7 witness: 'a/../../x' is refused although /x is a regular file
C7_Witness ==
    /\ sd_ret.op = "send_from_directory"
    /\ sd_filename = <<"a", "..", "..", "x">>
    /\ sd_directory = <<"", "d">>
    /\ <<"x">> \in sd_files
    /\ sd_ret.outcome = "NotFound"

\* the Query calls that reading result, count or items made, in order
LazyQueries ==
    SelectSeq(sx_queries, LAMBDA q : q.by \in {"result", "count", "items"})

C9_QueryFailureRaises ==
    (sx_ret.op \in {"result", "count", "items", "all_items"}
        /\ sx_ret.query_failed)
    => (sx_ret.outcome = "raise" /\ sx_ret.value = sx_ret.error)

\* the domain is exactly one clause ('id', 'in', ids) and the order is None
IsIdListDomain ==
    /\ dp_order = None
    /\ \E ids \in IdLists : dp_domain = <<Clause("id", "in", ids)>>

\* whether the last operation called obj.search
CalledSearch == \E i \in 1..Len(dp_calls) : dp_calls[i].fn = "search"

\* C10: with a domain that is exactly one clause ('id', 'in', ids) and order
\* None, count is len(ids), items() browses ids[offset : offset + per_page]
\* with offset = (page - 1) * per_page, and count, items and all_items do
\* not call obj.search; with any other domain, or an order, items() calls
\* obj.search with offset (page - 1) * per_page, limit per_page and the
\* given order.
C10_IdListDomainSkipsSearch ==
    /\ (IsIdListDomain /\ dp_ret.op \in {"count", "items", "all_items"})
           => ~CalledSearch
    /\ (IsIdListDomain /\ dp_ret.op = "count")
           => dp_ret.value = Len(dp_domain[1].value)
    /\ (IsIdListDomain /\ dp_ret.op = "items") =>
           LET ids == dp_domain[1].value
               first == (dp_page - 1) * dp_per_page
               n == IF Len(ids) - first < 0 THEN 0
                    ELSE Min2(dp_per_page, Len(ids) - first)
           IN  dp_calls = <<[fn |-> "browse",
                            ids |-> [i \in 1..n |-> ids[first + i]]]>>
    /\ (~IsIdListDomain /\ dp_ret.op = "items") =>
           /\ dp_calls[1].fn = "search"
           /\ dp_calls[1].domain = dp_domain
           /\ dp_calls[1].offset = (dp_page - 1) * dp_per_page
           /\ dp_calls[1].limit = dp_per_page
           /\ dp_calls[1].order = dp_order

\* C10 witness: items() on page 2 of an ID-list domain whose last page is
\* not full
C10_Witness ==
    /\ IsIdListDomain
    /\ dp_ret.op = "items"
    /\ dp_page = 2
    /\ dp_per_page = 3
    /\ dp_domain[1].value = <<9, 8, 7, 6>>
    /\ dp_calls = <<[fn |-> "browse", ids |-> <<6>>]>>

\* C11 as stated: the section of page p yields exactly the matching records
\* whose id satisfies min_id <= id < max_id, with min_id = (p - 1) * 1000 and
\* max_id = min_id + 1000.
C11_WindowHalfOpen ==
    \A p \in DOMAIN ss_yield :
        {ss_yield[p][i] : i \in 1..Len(ss_yield[p])} =
            {id \in sm_match : (p - 1) * 1000 <= id /\ id < (p - 1) * 1000 + 1000}

\* C11 amended: the section of page p yields exactly the matching records
\* whose id satisfies min_id < id <= max_id, each of them once, with
\* min_id = (p - 1) * 1000 and max_id = min_id + 1000.
C11_WindowAboveMinUpToMax ==
    \A p \in DOMAIN ss_yield :
        /\ {ss_yield[p][i] : i \in 1..Len(ss_yield[p])} =
             {id \in sm_match : (p - 1) * 1000 < id /\ id <= (p - 1) * 1000 + 1000}
        /\ \A i, j \in 1..Len(ss_yield[p]) :
             ss_yield[p][i] = ss_yield[p][j] => i = j

\* C11 witness: page 2 was iterated over a table where the rows 1000, 1001
\* and 2000 match: it yielded 1001 and 2000 and not 1000
C11_Witness ==
    /\ {1000, 1001, 2000} \subseteq sm_match
    /\ 2 \in DOMAIN ss_yield
    /\ \E i \in 1..Len(ss_yield[2]) : ss_yield[2][i] = 2000
    /\ \E i \in 1..Len(ss_yield[2]) : ss_yield[2][i] = 1001
    /\ \A i \in 1..Len(ss_yield[2]) : ss_yield[2][i] # 1000

\* C12: on every exit from SitemapIndex.render and SitemapSection.render,
\* whether it returns a response or raises (from url_for, search, browse or
\* send_file), the temporary file no longer exists.
C12_TempFileGoneOnExit ==
    sr_ret.op # "none" => ~sr_tmp.exists

\* C12 witness: render of the index raised from url_for at the second entry,
\* after writing to the temporary file, and the file is gone
C12_Witness ==
    /\ sr_ret.op = "index"
    /\ sr_ret.outcome = "raised"
    /\ sr_ret.error = "url_for"
    /\ Len(sr_doc) = 4
    /\ ~sr_tmp.exists

\* C13: the content that the response returned by render transmits is the
\* complete document: all the writes have reached the temporary file when
\* send_file is called with its name, and the file is still available when
\* its content is sent, with the file wrapper and with X-Sendfile.
C13_CompleteDocumentTransmitted ==
    /\ sr_ret.outcome = "response" => sr_seen = Len(sr_doc)
    /\ sr_sent.done => sr_sent.ok /\ sr_sent.body = sr_doc

\* C14: a view wrapped by login_required is invoked if and only if 'user' is
\* in the session, otherwise a redirect to the login endpoint with
\* next=request.url is returned; a view wrapped by secure is invoked if and
\* only if the request is secure, otherwise a redirect to the request URL
\* with 'http://' replaced by 'https://' is returned.
C14_GuardedViews ==
    /\ gt_ret.decorator = "login_required" =>
        IF "user" \in gt_session
        THEN gt_ret.kind = "view" /\ gt_calls = 1
        ELSE /\ gt_calls = 0
             /\ gt_ret.kind = "redirect"
             /\ gt_ret.endpoint = "nereid.website.login"
             /\ gt_ret.location = gt_url
    /\ gt_ret.decorator = "secure" =>
        IF gt_url[1] = "https://"
        THEN gt_ret.kind = "view" /\ gt_calls = 1
        ELSE /\ gt_calls = 0
             /\ gt_ret.kind = "redirect"
             /\ Len(gt_ret.location) = Len(gt_url)
             /\ \A i \in 1..Len(gt_url) :
                    /\ gt_url[i] = "http://" => gt_ret.location[i] = "https://"
                    /\ gt_url[i] # "http://" => gt_ret.location[i] = gt_url[i]

\* C14 witness: a session with keys but without 'user' was redirected to
\* the login endpoint and the view did not run
C14_Witness ==
    /\ gt_ret.decorator = "login_required"
    /\ gt_session = {"_flashes", "language"}
    /\ gt_ret.kind = "redirect"
    /\ gt_calls = 0

\* C15: SitemapIndex.render emits exactly page_count <sitemap> entries, one
\* per page 1..page_count in ascending order, where page_count is the ceiling
\* of count / 1000 and count is the table's max(id), for every table with
\* zero or more rows: a table without rows gives an index without entries.
C15_IndexEntriesForEveryTable ==
    (sr_ret.op = "index" /\ sr_ret.error \notin {"url_for", "send_file"}) =>
        LET n == IF sm_table = {} THEN 0
                 ELSE CHOOSE k \in 0..Max(sm_table) :
                        k * 1000 >= Max(sm_table) /\ (k - 1) * 1000 < Max(sm_table)
        IN  /\ sr_ret.outcome = "response"
            /\ Len(sr_doc) = n + 4
            /\ \A i \in 1..n : sr_doc[3 + i] = [tag |-> "<sitemap>", n |-> i]
            /\ sr_doc[n + 4].tag = "</sitemapindex>"

\* the page numbers iter_pages yielded, and those of 1..pages it skipped
C16_Yielded ==
    {pg_ret.value[i].num : i \in {j \in 1..Len(pg_ret.value) :
                                     ~pg_ret.value[j].is_none}}

C16_Skipped == (1..pages) \ C16_Yielded

\* C16: iter_pages yields page numbers in strictly increasing order, all
\* within 1..pages, and None exactly once for each run of skipped page
\* numbers (never two None in a row, never None between consecutive
\* numbers); with the default thresholds 2, 2, 2, 2 it yields the first two
\* pages, the last two pages and, when 1 <= page <= pages, the current page
\* with the 2 pages before it and the page after it.
C16_IterPages ==
    pg_ret.op = "iter_pages" =>
        LET v == pg_ret.value
            nones == {i \in 1..Len(v) : v[i].is_none}
            runs == {n \in C16_Skipped : n - 1 \notin C16_Skipped}
        IN  /\ C16_Yielded \subseteq 1..pages
            /\ \A i, j \in (1..Len(v)) \ nones : i < j => v[i].num < v[j].num
            /\ Cardinality(nones) = Cardinality(runs)
            /\ \A i \in nones : i + 1 \notin nones
            /\ \A i \in nones :
                    (i > 1 /\ i < Len(v)) => v[i + 1].num > v[i - 1].num + 1
            /\ pg_ret.args = <<2, 2, 2, 2>> =>
                    /\ {1, 2} \cap (1..pages) \subseteq C16_Yielded
                    /\ {pages - 1, pages} \cap (1..pages) \subseteq C16_Yielded
                    /\ page \in 1..pages =>
                           ((page - 2)..(page + 1)) \cap (1..pages)
                               \subseteq C16_Yielded

\* C17: on page p with per_page n over data d, next() returns a pagination
\* object for page p + 1 and prev one for page p - 1, each over the same
\* data d and the same per_page n; has_next is true exactly when p < pages
\* and has_prev exactly when p > 1.
C17_NextAndPrev ==
    /\ pg_ret.op = "next" =>
        /\ ~pg_ret.raised
        /\ pg_ret.object = [page |-> page + 1, per_page |-> per_page,
                            data |-> data]
    /\ pg_ret.op = "prev" =>
        /\ ~pg_ret.raised
        /\ pg_ret.object = [page |-> page - 1, per_page |-> per_page,
                            data |-> data]
    /\ pg_ret.op = "has_next" =>
        (pg_ret.value <=> page * per_page < Len(data))
    /\ pg_ret.op = "has_prev" => (pg_ret.value <=> page > 1)

\* the crumbs of records in the result, without the Home crumb
C18_Records ==
    IF mc_ret.add_home /\ Len(mc_ret.value) > 0
    THEN SubSeq(mc_ret.value, 2, Len(mc_ret.value))
    ELSE mc_ret.value

\* C18: make_crumbs terminates and is bounded: for every parent chain,
\* cyclic ones included, the result holds at most max_depth record crumbs
\* (plus the Home crumb when add_home); tracing stops at the first node whose
\* id is in root_ids, which is included while none of its ancestors are;
\* the result goes from Home (first, when add_home) through the topmost
\* ancestor down to the given browse_record as the last item.
C18_CrumbsBoundedAndOrdered ==
    mc_ret.op = "make_crumbs" =>
        LET recs == C18_Records
            n == Len(recs)
        IN  /\ Len(mc_ret.value) = n + (IF mc_ret.add_home THEN 1 ELSE 0)
            /\ mc_ret.add_home => mc_ret.value[1].endpoint = "nereid.website.home"
            /\ \A i \in 1..n : recs[i].endpoint = "endpoint"
            /\ n <= mc_ret.max_depth
            /\ (mc_ret.max_depth >= 1 /\ mc_ret.browse_record # 0) =>
                    n >= 1 /\ recs[n].node = mc_ret.browse_record
            /\ \A i \in 1..(n - 1) : recs[i].node = mc_parent[recs[i + 1].node]
            /\ \A i \in 2..n : recs[i].node \notin mc_ret.root_ids
            /\ (n >= 1 /\ n < mc_ret.max_depth) =>
                    \/ recs[1].node \in mc_ret.root_ids
                    \/ mc_parent[recs[1].node] = 0

\* C18 witness: on the cycle 1 -> 2 -> 1 without root ids, max_depth 3 gave
\* Home and the three crumbs 1, 2, 1
C18_Witness ==
    /\ mc_ret.op = "make_crumbs"
    /\ mc_parent[1] = 2 /\ mc_parent[2] = 1
    /\ mc_ret.root_ids = {}
    /\ mc_ret.max_depth = 3
    /\ mc_ret.add_home
    /\ Len(mc_ret.value) = 4
    /\ mc_ret.value[4].node = 1 /\ mc_ret.value[3].node = 2
    /\ mc_ret.value[2].node = 1

\* items() of the pages first..last of the data, one after the other
RECURSIVE C19_ItemsOfPages(_, _)
C19_ItemsOfPages(first, last) ==
    IF first > last THEN <<>>
    ELSE items(first, per_page, data) \o C19_ItemsOfPages(first + 1, last)

\* C19: over a data sequence with per_page > 0, items() of a page has at
\* most per_page elements, items() of the pages 1..pages one after the other
\* are exactly all_items() (every element on exactly one page, in the
\* original order), and a page beyond the last is empty.
C19_PagesPartitionData ==
    /\ pg_ret.op = "items" =>
        /\ Len(pg_ret.value) <= per_page
        /\ \A i \in 1..Len(pg_ret.value) :
               /\ (page - 1) * per_page + i <= Len(data)
               /\ pg_ret.value[i] = data[(page - 1) * per_page + i]
        /\ Len(pg_ret.value) < per_page =>
               (page - 1) * per_page + Len(pg_ret.value) >= Len(data)
        /\ page * per_page >= Len(data) + per_page => pg_ret.value = <<>>
    /\ pg_ret.op = "all_items" =>
        /\ pg_ret.value = data
        /\ C19_ItemsOfPages(1, pages) = pg_ret.value
        /\ \A p \in (pages + 1)..(pages + 2) :
               items(p, per_page, data) = <<>>

\* C19 witness: items() was read on the last page of a data set, and the
\* page is not full
C19_Witness ==
    /\ pg_ret.op = "items"
    /\ page = pages
    /\ page > 1
    /\ Len(pg_ret.value) < per_page
    /\ pg_ret.value # <<>>
    /\ pg_ret.value[Len(pg_ret.value)] = data[Len(data)]

\* the places where the sections of the pages 1..last yielded the id
C20_Yields(id, last) ==
    {pi \in (1..last) \X (1..Cardinality(sm_match)) :
        /\ pi[1] \in DOMAIN ss_yield
        /\ pi[2] <= Len(ss_yield[pi[1]])
        /\ ss_yield[pi[1]][pi[2]] = id}

\* C20: for a model whose largest id is M >= 1, the sections of the pages
\* 1..page_count together yield every record that matches the domain, with
\* its id in 1..M, exactly once (the windows of the pages are disjoint, leave
\* no gap, and the last page reaches M), and no page above page_count yields
\* any record.
C20_IndexAndSectionsAgree ==
    (sm_table # {} /\ sm_ret.op = "page_count") =>
        LET M == Max(sm_table)
            last == sm_ret.value
        IN  /\ last * 1000 >= M
            /\ (1..last) \subseteq DOMAIN ss_yield =>
                   /\ \A id \in sm_match :
                          Cardinality(C20_Yields(id, last)) = 1
                   /\ \A p \in 1..last : \A i \in 1..Len(ss_yield[p]) :
                          ss_yield[p][i] \in sm_match
            /\ \A p \in DOMAIN ss_yield : p > last => ss_yield[p] = <<>>

\* C20 witness: the largest id is 2001 and the rows 1000, 1001, 2000 and
\* 2001 match; page_count is 3, the pages 1..4 were iterated, page 3 yielded
\* 2001 and page 4 nothing
C20_Witness ==
    /\ sm_ret.op = "page_count"
    /\ sm_ret.value = 3
    /\ {1000, 1001, 2000, 2001} \subseteq sm_match
    /\ DOMAIN ss_yield = 1..4
    /\ ss_yield[3] = <<2001>>
    /\ ss_yield[4] = <<>>

\* how many pairs of fl_log were queued at the first get_flashed_messages
\* call of the last cycle before request r that called it; 0 without one
C21_MarkBefore(r) ==
    LET earlier == {q \in DOMAIN fl_cycles : q < r}
    IN  IF earlier = {} THEN 0 ELSE fl_cycles[Max(earlier)].mark

\* C21: over successive request cycles that share one session, every
\* flashed message is delivered to exactly one cycle, the first one whose
\* first get_flashed_messages call comes after the flash() call: a cycle
\* gets exactly the pairs queued since the first call of the cycle before it
\* that called, in order, no pair is delivered in two cycles, and the pairs
\* flashed after the first call of the current request stay queued in the
\* session, in order, for a later cycle.
C21_DeliveredToExactlyOneCycle ==
    /\ \A r \in DOMAIN fl_cycles :
           fl_cycles[r].got =
               SubSeq(fl_log, C21_MarkBefore(r) + 1, fl_cycles[r].mark)
    /\ (IF fl_session = None THEN <<>> ELSE fl_session) =
           SubSeq(fl_log, C21_MarkBefore(fl_req + 1) + 1, Len(fl_log))

\* C21 witness: the first request got the first pair; the pair flashed after
\* its get_flashed_messages call was delivered to the second request, and a
\* third pair, flashed after the call of the second request, is queued
C21_Witness ==
    /\ fl_req = 2
    /\ DOMAIN fl_cycles = {1, 2}
    /\ Len(fl_log) = 3
    /\ fl_cycles[1].got = <<fl_log[1]>>
    /\ fl_cycles[2].got = <<fl_log[2]>>
    /\ fl_session = <<fl_log[3]>>

=============================================================================
